---------------------------- MODULE Spec2Model ----------------------------
(***************************************************************************)
(* Model of the citation pipeline of the multi-modal research assistant:   *)
(*   - CitationTracker (orchestration/citation_tracker.py): the ledger,    *)
(*     its JSON store, report and bibliography export;                     *)
(*   - ResearchOrchestrator (orchestration/research_orchestrator.py):      *)
(*     process_query, extract_citations, citation_matches_source.          *)
(*                                                                         *)
(* Strings that the code inspects character by character (titles, urls,    *)
(* author names, marker labels) are sequences of one-character strings.    *)
(* A Python dict whose iteration order matters is a sequence of entries in *)
(* insertion order, each entry carrying its key in the field id.           *)
(***************************************************************************)
EXTENDS Integers, Sequences, FiniteSets, TLC

VARIABLES
    tracker,     \* "up" once CitationTracker() returned, "failed" when it raised
    citations,   \* CitationTracker.citations, the in-memory registry
    storage,     \* the file at CitationTracker.storage_path
    clock,       \* datetime.now(), in ticks
    last,        \* the last call on the ledger: its arguments and whether it raised
    lastAdd,     \* the last add_citation call that changed the registry, and the
                 \* registry before it
    prevAdd,     \* the one before lastAdd
    ret,         \* the value the last call returned
    th,          \* the threads inside add_citation: where each is, and its arguments
    response,        \* extract_citations: the generated text, as its citation markers
    search_results,  \* extract_citations: the candidates, as hybrid_search returns them
    extracted,       \* extract_citations: the list it returned
    xpc,             \* "ready" before extract_citations ran, "done" after
    memory,      \* ResearchOrchestrator.memory: the turns saved by save_context
    result,      \* the dict the last process_query returned
    qlast,       \* the last process_query call: its query, its hits, whether the generation
                 \* step returned, the steps it entered, what the related-query
                 \* call did, and the lengths of usage_history and of the memory
                 \* when it began
    connected,   \* OpenSearchManager.connected, set once in __init__
    index,       \* the documents the backend holds in the index, oldest first
    iret,        \* what the last call on the OpenSearchManager returned
    ilast,       \* that call: its arguments before and after it, the store before
                 \* it, and what the backend was asked and answered
    db,              \* CollectionDatabaseManager: the rows of the collections table
    collected_data,  \* ResearchAssistantUI.collected_data
    cret,            \* what the last handle_data_collection returned
    clast            \* that call: its source type, the rows before it and the
                     \* documents it prepared

extraction == <<response, search_results, extracted, xpc>>

conversation == <<memory, result, qlast>>

indexer == <<connected, index, iret, ilast>>

collection == <<db, collected_data, cret, clast>>

\* what the ledger's sequential operations leave alone
others == <<th, extraction, conversation, indexer, collection>>

vars == <<tracker, citations, storage, clock, last, lastAdd, prevAdd, ret, others>>

-----------------------------------------------------------------------------
(* Bounds of the model *)

\* add_citation calls that read the clock
MaxCalls == 3

\* threads calling add_citation at the same time
NThreads == 2

\* citation markers in a generated text
MaxMarkers == 2

\* search results handed to extract_citations
MaxResults == 2

-----------------------------------------------------------------------------
(* Strings and dictionaries *)

\* the characters of the model's texts, in the order of their code points
Ascii ==
    <<" ", "(", ")", "-", ".", "0", "1", "2", "3", "4", "5", "6", "7", "8", "9",
      "R", "U", "a", "b", "c", "d", "e", "f", "i", "k", "l", "m", "n", "o", "r",
      "t", "v", "w">>

CodeTable ==
    [ch \in {Ascii[i] : i \in 1..Len(Ascii)} |-> CHOOSE i \in 1..Len(Ascii) : Ascii[i] = ch]

\* ord(ch), up to an order-preserving renumbering
Code(ch) == CodeTable[ch]

\* str(n) for one digit
Digit(n) == Ascii[n + 6]

\* dict.get(key, default)
Get(d, key, default) == IF key \in DOMAIN d THEN d[key] ELSE default

\* `key in d` for a dict kept as a sequence of entries
HasKey(m, key) == \E i \in 1..Len(m) : m[i].id = key

\* position of d[key]
IndexOf(m, key) == CHOOSE i \in 1..Len(m) : m[i].id = key

RECURSIVE SumSeq(_)
SumSeq(s) == IF s = <<>> THEN 0 ELSE Head(s) + SumSeq(Tail(s))

-----------------------------------------------------------------------------
(* CitationTracker *)

ContentTypes == {"paper", "video", "podcast"}

\* f'{content_type}s'
MapKey(content_type) == content_type \o "s"

MapKeys == <<"papers", "videos", "podcasts">>

\* load_citations, the FileNotFoundError branch
EmptyRegistry ==
    [papers |-> <<>>, videos |-> <<>>, podcasts |-> <<>>, usage_history |-> <<>>]

\* hashlib.md5(s.encode()).hexdigest()[:12]: the digest is taken to be free of
\* collisions on the strings of the model, so it is an injective numbering of them
RECURSIVE Md5Hex12(_)
Md5Hex12(s) == IF s = <<>> THEN 0 ELSE Code(Head(s)) + (Len(Ascii) + 1) * Md5Hex12(Tail(s))

\* generate_citation_id
GenerateCitationId(citation) ==
    LET unique_string == Get(citation, "title", <<>>) \o Get(citation, "url", <<>>)
    IN  Md5Hex12(unique_string)

\* json.dump of the registry: every dict becomes an object, a list of
\* <<key, value>> members in the dict's order
DumpMap(m) ==
    [i \in 1..Len(m) |->
        <<m[i].id, [title |-> m[i].title, authors |-> m[i].authors, url |-> m[i].url,
                    first_used |-> m[i].first_used, use_count |-> m[i].use_count,
                    queries |-> m[i].queries]>>]

JsonDump(reg) ==
    << <<"papers", DumpMap(reg.papers)>>, <<"videos", DumpMap(reg.videos)>>,
       <<"podcasts", DumpMap(reg.podcasts)>>, <<"usage_history", reg.usage_history>> >>

\* json.load: every object becomes a dict with the members' order
LoadMap(members) ==
    [i \in 1..Len(members) |->
        [id |-> members[i][1], title |-> members[i][2].title,
         authors |-> members[i][2].authors, url |-> members[i][2].url,
         first_used |-> members[i][2].first_used, use_count |-> members[i][2].use_count,
         queries |-> members[i][2].queries]]

Member(doc, key) == doc[CHOOSE i \in 1..Len(doc) : doc[i][1] = key][2]

JsonLoad(doc) ==
    [papers |-> LoadMap(Member(doc, "papers")), videos |-> LoadMap(Member(doc, "videos")),
     podcasts |-> LoadMap(Member(doc, "podcasts")),
     usage_history |-> Member(doc, "usage_history")]

\* the file: absent, holding a JSON document, or holding what is no JSON document
AbsentFile == [kind |-> "absent", doc |-> <<>>]
CorruptFile == [kind |-> "corrupt", doc |-> <<>>]
JsonFile(doc) == [kind |-> "json", doc |-> doc]

\* load_citations: the registry of the file, the empty structure when the file is
\* absent; json.load's error on any other content is not caught
LoadCitations(file) ==
    IF file.kind = "absent" THEN [raised |-> FALSE, value |-> EmptyRegistry]
    ELSE IF file.kind = "json" THEN [raised |-> FALSE, value |-> JsonLoad(file.doc)]
    ELSE [raised |-> TRUE, value |-> EmptyRegistry]

\* what open(path, 'w') and json.dump can do to the file
DiskOutcomes == {"ok", "open_fails", "write_fails"}

\* save_citations with the store's errors caught and dropped
SaveCitations_Swallow(reg, file, disk) ==
    IF disk = "ok" THEN [raised |-> FALSE, file |-> JsonFile(JsonDump(reg))]
    ELSE IF disk = "open_fails" THEN [raised |-> FALSE, file |-> file]
    ELSE [raised |-> FALSE, file |-> CorruptFile]

\* save_citations returning normally when the file could not be opened
SaveCitations_OpenIgnored(reg, file, disk) ==
    IF disk = "ok" THEN [raised |-> FALSE, file |-> JsonFile(JsonDump(reg))]
    ELSE IF disk = "open_fails" THEN [raised |-> FALSE, file |-> file]
    ELSE [raised |-> TRUE, file |-> CorruptFile]

\* save_citations: open(storage_path, 'w') truncates, json.dump writes the registry
SaveCitations(reg, file, disk) ==
    IF disk = "ok" THEN [raised |-> FALSE, file |-> JsonFile(JsonDump(reg))]
    ELSE IF disk = "open_fails" THEN [raised |-> TRUE, file |-> file]
    ELSE [raised |-> TRUE, file |-> CorruptFile]

\* add_citation without its `if citation_id not in ...`: the entry is stored anew
\* on every call
AddCitationMem_Overwrite(reg, citation, query, now) ==
    LET content_type == citation.content_type
        citation_id  == GenerateCitationId(citation)
        key          == MapKey(content_type)
        fresh        == [id |-> citation_id, title |-> citation.title,
                         authors |-> Get(citation, "authors", <<>>),
                         url |-> Get(citation, "url", <<>>),
                         first_used |-> now, use_count |-> 1,
                         queries |-> <<[query |-> query, timestamp |-> now]>>]
    IN  IF key \notin DOMAIN reg THEN [raised |-> TRUE, reg |-> reg]
        ELSE [raised |-> FALSE,
              reg |-> [reg EXCEPT
                         ![key] = IF HasKey(@, citation_id)
                                  THEN [@ EXCEPT ![IndexOf(@, citation_id)] = fresh]
                                  ELSE Append(@, fresh),
                         !.usage_history =
                             Append(@, [citation_id |-> citation_id,
                                        content_type |-> content_type,
                                        query |-> query, timestamp |-> now])]]

\* add_citation listing a query once per entry: a query the entry already has
\* is counted and logged but not appended to its queries
AddCitationMem_DistinctQueries(reg, citation, query, now) ==
    LET content_type == citation.content_type
        citation_id  == GenerateCitationId(citation)
        key          == MapKey(content_type)
    IN  IF key \notin DOMAIN reg THEN [raised |-> TRUE, reg |-> reg]
        ELSE IF ~HasKey(reg[key], citation_id) /\ "title" \notin DOMAIN citation
        THEN [raised |-> TRUE, reg |-> reg]
        ELSE
        LET stored ==
                IF ~HasKey(reg[key], citation_id)
                THEN Append(reg[key],
                        [id |-> citation_id, title |-> citation.title,
                         authors |-> Get(citation, "authors", <<>>),
                         url |-> Get(citation, "url", <<>>),
                         first_used |-> now, use_count |-> 0, queries |-> <<>>])
                ELSE reg[key]
            i == IndexOf(stored, citation_id)
            updated ==
                [stored EXCEPT ![i].use_count = @ + 1,
                               ![i].queries =
                                   IF \E n \in 1..Len(@) : @[n].query = query THEN @
                                   ELSE Append(@, [query |-> query, timestamp |-> now])]
            history ==
                Append(reg.usage_history,
                       [citation_id |-> citation_id, content_type |-> content_type,
                        query |-> query, timestamp |-> now])
        IN  [raised |-> FALSE,
             reg |-> [reg EXCEPT ![key] = updated, !.usage_history = history]]

\* add_citation up to save_citations: the registry after the call, or the KeyError
\* of an unknown content type or of a new citation without title
AddCitationMem(reg, citation, query, now) ==
    LET content_type == citation.content_type
        citation_id  == GenerateCitationId(citation)
        key          == MapKey(content_type)
    IN  IF key \notin DOMAIN reg THEN [raised |-> TRUE, reg |-> reg]
        ELSE IF ~HasKey(reg[key], citation_id) /\ "title" \notin DOMAIN citation
        THEN [raised |-> TRUE, reg |-> reg]
        ELSE
        LET stored ==
                IF ~HasKey(reg[key], citation_id)
                THEN Append(reg[key],
                        [id |-> citation_id, title |-> citation.title,
                         authors |-> Get(citation, "authors", <<>>),
                         url |-> Get(citation, "url", <<>>),
                         first_used |-> now, use_count |-> 0, queries |-> <<>>])
                ELSE reg[key]
            i == IndexOf(stored, citation_id)
            updated ==
                [stored EXCEPT ![i].use_count = @ + 1,
                               ![i].queries = Append(@, [query |-> query, timestamp |-> now])]
            history ==
                Append(reg.usage_history,
                       [citation_id |-> citation_id, content_type |-> content_type,
                        query |-> query, timestamp |-> now])
        IN  [raised |-> FALSE,
             reg |-> [reg EXCEPT ![key] = updated, !.usage_history = history]]


\* get_most_cited builds all_citations map by map, each in the dict's order
AllCitations(reg) ==
    LET rows(key) ==
            [i \in 1..Len(reg[key]) |->
                [id |-> reg[key][i].id, type |-> key, title |-> reg[key][i].title,
                 use_count |-> reg[key][i].use_count]]
    IN  rows("papers") \o rows("videos") \o rows("podcasts")

\* sorted(..., key=use_count, reverse=True): stable, so rows of equal use_count
\* keep the order they have in the input
RECURSIVE SortedByUseCountDesc(_)
SortedByUseCountDesc(rows) ==
    IF rows = <<>> THEN <<>>
    ELSE LET rest == SortedByUseCountDesc(SubSeq(rows, 1, Len(rows) - 1))
             x    == rows[Len(rows)]
             \* x goes behind every row that counts at least as much
             k    == Cardinality({j \in 1..Len(rest) : rest[j].use_count >= x.use_count})
         IN  SubSeq(rest, 1, k) \o <<x>> \o SubSeq(rest, k + 1, Len(rest))

\* s[:n]
Take(s, n) == SubSeq(s, 1, IF Len(s) < n THEN Len(s) ELSE n)

\* s[-n:]
LastN(s, n) == SubSeq(s, IF Len(s) < n THEN 1 ELSE Len(s) - n + 1, Len(s))

\* s[::-1]
Reverse(s) == [i \in 1..Len(s) |-> s[Len(s) + 1 - i]]

\* get_most_cited
GetMostCited(reg, n) == Take(SortedByUseCountDesc(AllCitations(reg)), n)

\* get_recent_citations takes the first n events instead of the last n
GetRecentCitations_Oldest(reg, n) == Reverse(Take(reg.usage_history, n))

\* get_recent_citations
GetRecentCitations(reg, n) == Reverse(LastN(reg.usage_history, n))

MostCitedN == 5
RecentN == 10

\* get_citation_report
GetCitationReport(reg) ==
    [total_papers |-> Len(reg.papers), total_videos |-> Len(reg.videos),
     total_podcasts |-> Len(reg.podcasts),
     most_cited |-> GetMostCited(reg, MostCitedN),
     recent_citations |-> GetRecentCitations(reg, RecentN)]

Unknown == <<"U", "n", "k", "n", "o", "w", "n">>

\* sep.join(parts)
RECURSIVE Join(_, _)
Join(parts, sep) ==
    IF parts = <<>> THEN <<>>
    ELSE IF Len(parts) = 1 THEN parts[1]
    ELSE parts[1] \o sep \o Join(Tail(parts), sep)

\* the pieces of a rendered text: the literal parts of an f-string, a citation
\* id, a text put into it
Lit(str) == [kind |-> "lit", v |-> str]
IdTok(id) == [kind |-> "id", v |-> id]
TextTok(text) == [kind |-> "text", v |-> text]

\* lines 116-121: the @article block of one paper
BibtexEntry(paper) ==
    << Lit("@article{"), IdTok(paper.id),
       Lit(",\n    title={"), TextTok(paper.title),
       Lit("},\n    author={"),
       TextTok(Join(Get(paper, "authors", <<Unknown>>), <<" ", "a", "n", "d", " ">>)),
       Lit("},\n    year={"), TextTok(Take(Get(paper, "first_used", <<>>), 4)),
       Lit("},\n    url={"), TextTok(Get(paper, "url", <<>>)),
       Lit("}\n}") >>

\* export_bibtex joins the blocks by a single newline
ExportBibtex_SingleNewline(reg) ==
    Join([i \in 1..Len(reg.papers) |-> BibtexEntry(reg.papers[i])], <<Lit("\n")>>)

\* export_bibtex: the blocks of the papers, joined by a blank line
ExportBibtex(reg) ==
    Join([i \in 1..Len(reg.papers) |-> BibtexEntry(reg.papers[i])], <<Lit("\n\n")>>)

\* a < b for two texts, as Python compares str
RECURSIVE LexLess(_, _)
LexLess(a, b) ==
    IF b = <<>> THEN FALSE
    ELSE IF a = <<>> THEN TRUE
    ELSE IF Code(Head(a)) # Code(Head(b)) THEN Code(Head(a)) < Code(Head(b))
    ELSE LexLess(Tail(a), Tail(b))

\* sorted(lines)
RECURSIVE SortedLines(_)
SortedLines(lines) ==
    IF lines = <<>> THEN <<>>
    ELSE LET rest == SortedLines(SubSeq(lines, 1, Len(lines) - 1))
             x    == lines[Len(lines)]
             k    == Cardinality({j \in 1..Len(rest) : ~LexLess(x, rest[j])})
         IN  SubSeq(rest, 1, k) \o <<x>> \o SubSeq(rest, k + 1, Len(rest))

\* the line export_apa renders for one paper
ApaLine(paper) ==
    LET authors == paper.authors
        year == IF Take(paper.first_used, 4) = <<>> THEN <<"n", ".", "d", ".">>
                ELSE Take(paper.first_used, 4)
        author_str ==
            IF authors # <<>>
            THEN IF Len(authors) = 1 THEN authors[1]
                 ELSE authors[1] \o <<" ", "e", "t", " ", "a", "l", ".">>
            ELSE <<"U", "n", "k", "n", "o", "w", "n">>
    IN  author_str \o <<" ", "(">> \o year \o <<")", ".", " ">> \o paper.title
        \o <<".", " ", "R", "e", "t", "r", "i", "e", "v", "e", "d", " ",
              "f", "r", "o", "m", " ">> \o paper.url

\* export_apa leaves the lines in the order of the papers map
ExportApa_Unsorted(reg) == [i \in 1..Len(reg.papers) |-> ApaLine(reg.papers[i])]

\* export_apa renders the videos as well as the papers
ExportApa_WithVideos(reg) ==
    SortedLines([i \in 1..Len(reg.papers) |-> ApaLine(reg.papers[i])]
                \o [i \in 1..Len(reg.videos) |-> ApaLine(reg.videos[i])])

\* export_apa: the lines, joined by newlines
ExportApa(reg) == SortedLines([i \in 1..Len(reg.papers) |-> ApaLine(reg.papers[i])])

Formats == {"bibtex", "apa", "json"}

\* export_bibliography
ExportBibliography(reg, format) ==
    IF format = "bibtex" THEN ExportBibtex(reg)
    ELSE IF format = "apa" THEN ExportApa(reg)
    ELSE JsonDump(reg)

\* datetime.now().isoformat(): four digits of year, then the rest
TicksPerYear == 2
IsoFormat(t) ==
    <<"2", "0", "2", Digit((t \div TicksPerYear) % 10), "-", Digit(t % TicksPerYear)>>


-----------------------------------------------------------------------------
(* The ledger's operations, called one at a time *)

A == <<"a">>
B == <<"b">>

\* the citation dicts the callers pass: two papers whose title + url is the same
\* text, the first paper's title and url as a video (without the authors key), and
\* a citation of an unknown content type
Citations ==
    { [content_type |-> "paper", title |-> <<"a">>, url |-> <<"b", "c">>,
       authors |-> <<A, B>>],
      [content_type |-> "paper", title |-> <<"a", "b">>, url |-> <<"c">>,
       authors |-> <<>>],
      [content_type |-> "video", title |-> <<"a">>, url |-> <<"b", "c">>],
      [content_type |-> "book", title |-> <<"a">>, url |-> <<"c">>] }

Queries == {"q1", "q2"}

NoCitation == [content_type |-> "none"]
None == "None"

Op(op, citation, query, raised) ==
    [op |-> op, citation |-> citation, query |-> query, raised |-> raised]

\* an add_citation call and the registry it found
Call(citation, query, before) ==
    [called |-> TRUE, citation |-> citation, query |-> query, before |-> before]

NoCall ==
    [called |-> FALSE, citation |-> NoCitation, query |-> "", before |-> EmptyRegistry]

\* CitationTracker(): __init__ reads the store
Construct ==
    LET loaded == LoadCitations(storage)
    IN  /\ tracker' = IF loaded.raised THEN "failed" ELSE "up"
        /\ citations' = loaded.value
        /\ last' = Op("init", NoCitation, "", loaded.raised)
        /\ lastAdd' = NoCall
        /\ prevAdd' = NoCall
        /\ ret' = None
        /\ UNCHANGED <<storage, clock, others>>

\* add_citation(citation, query), the store behaving as disk says, while fewer
\* than limit calls were applied
AddCitationUpTo(limit, citation, query, disk) ==
    /\ tracker = "up"
    /\ clock < limit
    /\ LET mem   == AddCitationMem(citations, citation, query, IsoFormat(clock))
           saved == SaveCitations(mem.reg, storage, disk)
       IN  /\ citations' = mem.reg
           /\ storage' = IF mem.raised THEN storage ELSE saved.file
           /\ clock' = IF mem.raised THEN clock ELSE clock + 1
           /\ last' = Op("add_citation", citation, query, mem.raised \/ saved.raised)
           /\ lastAdd' = IF mem.raised THEN lastAdd ELSE Call(citation, query, citations)
           /\ prevAdd' = IF mem.raised THEN prevAdd ELSE lastAdd
    /\ ret' = None
    /\ UNCHANGED <<tracker, others>>

AddCitation(citation, query, disk) == AddCitationUpTo(MaxCalls, citation, query, disk)

\* get_citation_report() with get_recent_citations reversing usage_history in place
Report_ReversesInPlace ==
    /\ tracker = "up"
    /\ ret' = GetCitationReport(citations)
    /\ citations' = [citations EXCEPT !.usage_history = Reverse(@)]
    /\ last' = Op("report", NoCitation, "", FALSE)
    /\ UNCHANGED <<tracker, storage, clock, lastAdd, prevAdd, others>>

\* get_citation_report()
Report ==
    /\ tracker = "up"
    /\ ret' = GetCitationReport(citations)
    /\ last' = Op("report", NoCitation, "", FALSE)
    /\ UNCHANGED <<tracker, citations, storage, clock, lastAdd, prevAdd, others>>

\* export_bibliography(format)
Export(format) ==
    /\ tracker = "up"
    /\ ret' = ExportBibliography(citations, format)
    /\ last' = Op("export", NoCitation, format, FALSE)
    /\ UNCHANGED <<tracker, citations, storage, clock, lastAdd, prevAdd, others>>

Threads == 1..NThreads

\* no thread is inside add_citation
NoThreads ==
    [t \in Threads |->
        [pc |-> "idle", citation |-> NoCitation, query |-> ""]]

\* a ledger constructed where no store exists yet
InitLedger ==
    /\ tracker = "up"
    /\ citations = EmptyRegistry
    /\ storage = AbsentFile
    /\ clock = 0
    /\ last = Op("init", NoCitation, "", FALSE)
    /\ lastAdd = NoCall
    /\ prevAdd = NoCall
    /\ ret = None

\* extract_citations is not running
NoExtraction ==
    /\ response = <<>>
    /\ search_results = <<>>
    /\ extracted = <<>>
    /\ xpc = "off"

\* a ResearchOrchestrator as constructed: empty memory, no query processed
NoQuery ==
    /\ memory = <<>>
    /\ result = None
    /\ qlast = [called |-> FALSE, query |-> "", generated |-> FALSE, usage_before |-> 0,
                turns_before |-> 0, steps |-> <<>>, related |-> "", hits |-> <<>>]

\* the values the methods of OpenSearchManager return
PyNone == [type |-> "NoneType", value |-> 0]
PyInt(n) == [type |-> "int", value |-> n]
PyList(l) == [type |-> "list", value |-> l]
PyDict(d) == [type |-> "dict", value |-> d]

\* no call was made on the OpenSearchManager, and the index is empty
NoIndexCall ==
    [op |-> "none", case |-> "", before |-> <<>>, documents |-> <<>>,
     after |-> <<>>, queried |-> FALSE, k |-> 0, hits |-> <<>>]

\* handle_data_collection was not called: no row, nothing kept, nothing returned
NoCollectCall == [called |-> FALSE, source_type |-> "", rows |-> 0, documents |-> <<>>]

NoCollection ==
    /\ db = <<>>
    /\ collected_data = <<>>
    /\ cret = [status |-> <<>>, results |-> <<>>]
    /\ clast = NoCollectCall

\* an OpenSearchManager whose connection test succeeded
NoIndexing ==
    /\ connected = TRUE
    /\ index = <<>>
    /\ iret = PyNone
    /\ ilast = NoIndexCall

Init ==
    /\ InitLedger
    /\ th = NoThreads
    /\ NoExtraction
    /\ NoQuery
    /\ NoIndexing
    /\ NoCollection

Next ==
    \/ \E citation \in Citations, query \in Queries, disk \in DiskOutcomes :
          AddCitation(citation, query, disk)
    \/ Report
    \/ \E format \in Formats : Export(format)
    \/ Construct

Spec == Init /\ [][Next]_vars


-----------------------------------------------------------------------------
(* Properties of the ledger *)

IsPrefix(s, t) == Len(s) <= Len(t) /\ SubSeq(t, 1, Len(s)) = s

TitleUrl(citation) == <<Get(citation, "title", <<>>), Get(citation, "url", <<>>)>>

SameSource(c1, c2) ==
    c1.content_type = c2.content_type /\ TitleUrl(c1) = TitleUrl(c2)

\* the citation_id the usage log gives the k-th last add_citation call
LoggedId(k) == citations.usage_history[Len(citations.usage_history) + 1 - k].citation_id

BothCalled == lastAdd.called /\ prevAdd.called

\* C1: two add_citation calls in a row with the same content_type, title and url
\* leave exactly one entry for the source in its map; its use_count is 2 more
\* than before the first call (2 when the source was new), its queries list is
\* the old one with two records appended, and the map gained at most that entry.
C1_TwiceSameSource ==
    (BothCalled /\ SameSource(lastAdd.citation, prevAdd.citation)) =>
        LET key    == MapKey(lastAdd.citation.content_type)
            id     == LoggedId(1)
            before == prevAdd.before[key]
            known  == HasKey(before, id)
            old_count   == IF known THEN before[IndexOf(before, id)].use_count ELSE 0
            old_queries == IF known THEN before[IndexOf(before, id)].queries ELSE <<>>
            now    == citations[key]
        IN  /\ LoggedId(2) = id
            /\ Cardinality({i \in 1..Len(now) : now[i].id = id}) = 1
            /\ now[IndexOf(now, id)].use_count = old_count + 2
            /\ Len(now[IndexOf(now, id)].queries) = Len(old_queries) + 2
            /\ IsPrefix(old_queries, now[IndexOf(now, id)].queries)
            /\ Len(now) = Len(before) + (IF known THEN 0 ELSE 1)

\* C1 witness: the source was in the registry before the first of the two calls
C1_Witness ==
    /\ BothCalled /\ SameSource(lastAdd.citation, prevAdd.citation)
    /\ HasKey(prevAdd.before[MapKey(lastAdd.citation.content_type)], LoggedId(1))
    /\ last.op = "add_citation"

\* the entries of the three maps, as <<map, position>>
Entries(reg) ==
    {<<key, i>> \in {"papers", "videos", "podcasts"} \X (1..MaxCalls + 1) :
        i <= Len(reg[key])}

\* C2: the three maps together hold at most one entry per (title, url) pair.
C2_OneEntryPerPair ==
    \A e1 \in Entries(citations), e2 \in Entries(citations) :
        (/\ citations[e1[1]][e1[2]].title = citations[e2[1]][e2[2]].title
         /\ citations[e1[1]][e1[2]].url = citations[e2[1]][e2[2]].url) => e1 = e2

\* C3: two citations get the same citation ID exactly when their title and their
\* url are equal.
C3_IdsDistinguishPairs ==
    BothCalled =>
        ((TitleUrl(lastAdd.citation) = TitleUrl(prevAdd.citation))
            <=> (LoggedId(1) = LoggedId(2)))

\* what a call on one ledger may do to the registry: every entry stays where it
\* is with its id, title, authors, url and first_used, its use_count does not
\* decrease, and its queries list and the usage log keep their contents as a prefix
Grows(old, new) ==
    /\ \A key \in {"papers", "videos", "podcasts"} :
          /\ Len(old[key]) <= Len(new[key])
          /\ \A i \in 1..Len(old[key]) :
                /\ new[key][i].id = old[key][i].id
                /\ new[key][i].title = old[key][i].title
                /\ new[key][i].authors = old[key][i].authors
                /\ new[key][i].url = old[key][i].url
                /\ new[key][i].first_used = old[key][i].first_used
                /\ new[key][i].use_count >= old[key][i].use_count
                /\ IsPrefix(old[key][i].queries, new[key][i].queries)
    /\ IsPrefix(old.usage_history, new.usage_history)

\* C4: no add_citation, report or export call on a ledger removes an entry,
\* lowers a use_count, changes first_used, title, authors or url, or changes the
\* queries lists and the usage log other than by appending.
C4_LedgerOnlyGrows == [][last'.op # "init" => Grows(citations, citations')]_vars

\* C4 witness: a report or export after an entry was used twice
C4_Witness ==
    /\ last.op \in {"report", "export"}
    /\ \E e \in Entries(citations) : citations[e[1]][e[2]].use_count >= 2
    /\ Len(citations.usage_history) = MaxCalls

\* C6: when add_citation has returned normally, the store holds a document from
\* which load_citations reads exactly the in-memory registry.
C6_StoreEqualsMemory ==
    (last.op = "add_citation" /\ ~last.raised) =>
        /\ storage.kind = "json"
        /\ ~LoadCitations(storage).raised
        /\ LoadCitations(storage).value = citations

\* C6 witness: a call returned normally after an earlier one had failed to write
C6_Witness ==
    /\ last.op = "add_citation" /\ ~last.raised
    /\ BothCalled
    /\ LoadCitations(storage).value = citations
    /\ prevAdd.before # lastAdd.before
    /\ Len(citations.papers) > 0 /\ Len(citations.videos) > 0


-----------------------------------------------------------------------------
(* add_citation called from several threads of one process.  The class takes *)
(* no lock, so the interpreter may switch threads between the statements of  *)
(* add_citation; `+=` and list.append are taken as one step each, and so is  *)
(* a thread's json.dump with the close that follows it.                      *)

ledgerHistory ==
    <<tracker, last, lastAdd, prevAdd, ret, extraction, conversation, indexer, collection>>

At(t, pc) == th[t].pc = pc

Goto(t, pc) == th' = [th EXCEPT ![t].pc = pc]

\* the map add_citation works on, for thread t
KeyOf(t) == MapKey(th[t].citation.content_type)

IdOf(t) == GenerateCitationId(th[t].citation)

\* a thread enters add_citation(citation, query)
Start(t, citation, query) ==
    /\ At(t, "idle")
    /\ th' = [th EXCEPT ![t] = [pc |-> "check", citation |-> citation, query |-> query]]
    /\ clock' = clock + 1
    /\ UNCHANGED <<citations, storage, ledgerHistory>>

\* lines 33-37: the id, and `if citation_id not in self.citations[...]`
Check(t) ==
    /\ At(t, "check")
    /\ IF KeyOf(t) \notin DOMAIN citations THEN Goto(t, "raised")
       ELSE IF ~HasKey(citations[KeyOf(t)], IdOf(t)) THEN Goto(t, "create")
       ELSE Goto(t, "increment")
    /\ UNCHANGED <<citations, storage, clock, ledgerHistory>>

\* lines 38-45: self.citations[...][citation_id] = {...}; an entry another thread
\* stored in the meantime is replaced
Create(t) ==
    /\ At(t, "create")
    /\ LET fresh == [id |-> IdOf(t), title |-> th[t].citation.title,
                     authors |-> Get(th[t].citation, "authors", <<>>),
                     url |-> Get(th[t].citation, "url", <<>>),
                     first_used |-> IsoFormat(clock), use_count |-> 0,
                     queries |-> <<>>]
       IN  citations' =
               [citations EXCEPT
                  ![KeyOf(t)] = IF HasKey(@, IdOf(t))
                                THEN [@ EXCEPT ![IndexOf(@, IdOf(t))] = fresh]
                                ELSE Append(@, fresh)]
    /\ Goto(t, "increment")
    /\ UNCHANGED <<storage, clock, ledgerHistory>>

\* line 48: ...['use_count'] += 1
Increment(t) ==
    /\ At(t, "increment")
    /\ citations' =
           [citations EXCEPT
              ![KeyOf(t)] = [@ EXCEPT ![IndexOf(@, IdOf(t))].use_count = @ + 1]]
    /\ Goto(t, "appendq")
    /\ UNCHANGED <<storage, clock, ledgerHistory>>

\* lines 49-52: ...['queries'].append({...})
AppendQuery(t) ==
    /\ At(t, "appendq")
    /\ citations' =
           [citations EXCEPT
              ![KeyOf(t)] =
                  [@ EXCEPT ![IndexOf(@, IdOf(t))].queries =
                      Append(@, [query |-> th[t].query,
                                 timestamp |-> IsoFormat(clock)])]]
    /\ Goto(t, "history")
    /\ UNCHANGED <<storage, clock, ledgerHistory>>

\* lines 55-60: self.citations['usage_history'].append({...})
AppendHistory(t) ==
    /\ At(t, "history")
    /\ citations' =
           [citations EXCEPT
              !.usage_history =
                  Append(@, [citation_id |-> IdOf(t),
                             content_type |-> th[t].citation.content_type,
                             query |-> th[t].query, timestamp |-> IsoFormat(clock)])]
    /\ Goto(t, "open")
    /\ UNCHANGED <<storage, clock, ledgerHistory>>

\* line 28: open(self.storage_path, 'w') truncates the file
Open(t) ==
    /\ At(t, "open")
    /\ storage' = CorruptFile
    /\ Goto(t, "dump")
    /\ UNCHANGED <<citations, clock, ledgerHistory>>

\* line 29: json.dump(self.citations, f, indent=2) writes the registry as it is
\* now and the file is closed, the thread running through both
DumpWrites(t) ==
    /\ At(t, "dump")
    /\ storage' = JsonFile(JsonDump(citations))
    /\ Goto(t, "done")
    /\ UNCHANGED <<citations, clock, ledgerHistory>>

\* line 29, another thread is about to store a new entry: json.dump's walk of
\* the dict raises "dictionary changed size during iteration"
DumpRaises(t) ==
    /\ At(t, "dump")
    /\ \E u \in Threads \ {t} : th[u].pc = "create"
    /\ storage' = CorruptFile
    /\ Goto(t, "raised")
    /\ UNCHANGED <<citations, clock, ledgerHistory>>

InitConc ==
    InitLedger /\ th = NoThreads /\ NoExtraction /\ NoQuery /\ NoIndexing /\ NoCollection

NextConc ==
    \E t \in Threads :
        \/ \E citation \in Citations, query \in Queries : Start(t, citation, query)
        \/ Check(t)
        \/ Create(t)
        \/ Increment(t)
        \/ AppendQuery(t)
        \/ AppendHistory(t)
        \/ Open(t)
        \/ DumpWrites(t)
        \/ DumpRaises(t)

SpecConc == InitConc /\ [][NextConc]_vars

\* every thread has left add_citation
AllReturned == \A t \in Threads : th[t].pc \in {"done", "raised"}

\* the calls whose content type the registry knows
ValidCalls == {t \in Threads : KeyOf(t) \in DOMAIN citations}

TotalUseCount(reg) ==
    SumSeq([i \in 1..Len(AllCitations(reg)) |-> AllCitations(reg)[i].use_count])

\* C5: once n concurrent add_citation calls have returned, the use_counts of
\* the registry sum to n and the usage log holds n events (so that the store,
\* written last, can hold all n updates).
C5_NoLostUpdate ==
    AllReturned =>
        /\ TotalUseCount(citations) = Cardinality(ValidCalls)
        /\ Len(citations.usage_history) = Cardinality(ValidCalls)


-----------------------------------------------------------------------------
(* ResearchOrchestrator.extract_citations *)

\* x in s, for two texts
Substring(x, s) ==
    \E i \in 1..(Len(s) + 1) :
        i + Len(x) - 1 <= Len(s) /\ SubSeq(s, i, i + Len(x) - 1) = x

\* the three citation patterns, in the order of citation_patterns
Patterns == <<"author_year", "video", "podcast">>

\* what re.findall gives for one marker: a tuple of the groups for the pattern
\* with two groups, the text of the group for a pattern with one
MatchOf(marker) ==
    IF marker.shape = "author_year"
    THEN [tuple |-> TRUE, val |-> <<marker.author, marker.year>>]
    ELSE [tuple |-> FALSE, val |-> marker.label]

\* re.findall(pattern, response): the matches of one pattern in text order
RECURSIVE FindAll(_, _)
FindAll(pattern, text) ==
    IF text = <<>> THEN <<>>
    ELSE (IF Head(text).shape = pattern THEN <<MatchOf(Head(text))>> ELSE <<>>)
         \o FindAll(pattern, Tail(text))

\* citation_match[0]: the first group of a tuple, the first character of a text
Index0(match) == IF match.tuple THEN match.val[1] ELSE <<match.val[1]>>

\* citation_matches_source
CitationMatchesSource(citation_match, source) ==
    IF source.content_type = "paper"
    THEN LET authors == Get(source, "authors", <<>>)
         IN  authors # <<>> /\ Substring(Index0(citation_match), authors[1])
    ELSE IF source.content_type \in {"video", "podcast"}
    THEN Substring(Index0(citation_match), Get(source, "title", <<>>))
    ELSE FALSE

\* the entry appended for a match and the source it was matched with
CitationEntry(match, source) ==
    [citation_text |-> match, source |-> source,
     content_type |-> source.content_type,
     url |-> Get(source, "url", <<>>), title |-> Get(source, "title", <<>>)]

\* extract_citations lets every candidate that matches add an entry (no break)
RECURSIVE MatchWithSources_NoBreak(_, _)
MatchWithSources_NoBreak(match, results) ==
    IF results = <<>> THEN <<>>
    ELSE (IF CitationMatchesSource(match, Head(results).source)
          THEN <<CitationEntry(match, Head(results).source)>> ELSE <<>>)
         \o MatchWithSources_NoBreak(match, Tail(results))

\* lines 180-192: the loop over search_results for one match, left at the first
\* source that matches
RECURSIVE MatchWithSources(_, _)
MatchWithSources(match, results) ==
    IF results = <<>> THEN <<>>
    ELSE IF CitationMatchesSource(match, Head(results).source)
         THEN <<CitationEntry(match, Head(results).source)>>
         ELSE MatchWithSources(match, Tail(results))

\* lines 178-192: the loop over the matches of one pattern
RECURSIVE ForMatches(_, _)
ForMatches(matches, results) ==
    IF matches = <<>> THEN <<>>
    ELSE MatchWithSources(Head(matches), results) \o ForMatches(Tail(matches), results)

\* extract_citations
ExtractCitations(text, results) ==
    ForMatches(FindAll(Patterns[1], text), results)
    \o ForMatches(FindAll(Patterns[2], text), results)
    \o ForMatches(FindAll(Patterns[3], text), results)

Year == <<"2", "0", "1", "7">>

\* the markers a generated text can hold
MarkerPool ==
    { [shape |-> "author_year", author |-> <<"a">>, year |-> Year],
      [shape |-> "author_year", author |-> <<"b">>, year |-> Year],
      [shape |-> "video", label |-> <<"a", "b">>],
      [shape |-> "podcast", label |-> <<"a", "b">>] }

\* the documents a search can return
SourcePool ==
    { [content_type |-> "paper", title |-> <<"c">>, authors |-> << <<"a", "b">> >>,
       url |-> <<"a">>],
      [content_type |-> "paper", title |-> <<"a">>, authors |-> << <<"b">>, <<"a">> >>,
       url |-> <<"b">>],
      [content_type |-> "paper", title |-> <<"a", "b">>, authors |-> <<>>],
      [content_type |-> "video", title |-> <<"a", "b">>, url |-> <<"c">>],
      [content_type |-> "video", title |-> <<"a">>, url |-> <<"c">>],
      [content_type |-> "podcast", title |-> <<"c", "a", "b">>, url |-> <<"c">>] }

\* sequences over S of length at most n
SeqUpTo(S, n) == UNION {[1..k -> S] : k \in 0..n}

\* hybrid_search lines 219-225: the hits with their scores, best first
AsResults(sources) ==
    [i \in 1..Len(sources) |-> [score |-> Len(sources) + 1 - i, source |-> sources[i]]]

InitExtract ==
    /\ InitLedger
    /\ th = NoThreads
    /\ response \in SeqUpTo(MarkerPool, MaxMarkers)
    /\ search_results \in {AsResults(srcs) : srcs \in SeqUpTo(SourcePool, MaxResults)}
    /\ extracted = <<>>
    /\ xpc = "ready"
    /\ NoQuery
    /\ NoIndexing
    /\ NoCollection

\* extract_citations(response, search_results)
Extract ==
    /\ xpc = "ready"
    /\ extracted' = ExtractCitations(response, search_results)
    /\ xpc' = "done"
    /\ UNCHANGED <<tracker, citations, storage, clock, last, lastAdd, prevAdd, ret,
                   th, response, search_results, conversation, indexer, collection>>

SpecExtract == InitExtract /\ [][Extract]_vars

\* the matches in the order extract_citations takes them, each with its pattern
AllMatches ==
    LET tagged(p) ==
            [i \in 1..Len(FindAll(p, response)) |->
                [pattern |-> p, match |-> FindAll(p, response)[i]]]
    IN  tagged(Patterns[1]) \o tagged(Patterns[2]) \o tagged(Patterns[3])

\* the candidates that satisfy citation_matches_source for the k-th match
Matching(k) ==
    {i \in 1..Len(search_results) :
        CitationMatchesSource(AllMatches[k].match, search_results[i].source)}

\* the position in the output of the entry of the k-th match
Rank(k) == Cardinality({j \in 1..k : Matching(j) # {}})

Min(S) == CHOOSE x \in S : \A y \in S : x <= y

C9_AuthorYearOnlyToPaper ==
    xpc = "done" =>
        \A k \in 1..Len(AllMatches) :
            (AllMatches[k].pattern = "author_year" /\ Matching(k) # {}) =>
                LET source == extracted[Rank(k)].source
                IN  /\ source.content_type = "paper"
                    /\ source.authors # <<>>
                    /\ Substring(AllMatches[k].match.val[1], source.authors[1])

\* C10: a [Video: label] marker is resolved only to a video, a [Podcast: label]
\* marker only to a podcast, and only to one whose title contains the whole label.
C10_LabelOnlyToTitle ==
    xpc = "done" =>
        \A k \in 1..Len(AllMatches) :
            (AllMatches[k].pattern \in {"video", "podcast"} /\ Matching(k) # {}) =>
                LET source == extracted[Rank(k)].source
                IN  /\ source.content_type = AllMatches[k].pattern
                    /\ Substring(AllMatches[k].match.val, source.title)

\* a marker names a source: an [Author, Year] marker a paper whose first author
\* contains the author, a [Video: label] or [Podcast: label] marker a document of
\* that kind whose title contains the label
Refers(marker, source) ==
    IF marker.shape = "author_year"
    THEN /\ source.content_type = "paper"
         /\ Get(source, "authors", <<>>) # <<>>
         /\ Substring(marker.author, source.authors[1])
    ELSE /\ source.content_type = marker.shape
         /\ Substring(marker.label, Get(source, "title", <<>>))

\* the candidates the k-th marker of the text names
Referenced(k) ==
    {i \in 1..Len(search_results) : Refers(response[k], search_results[i].source)}

\* C11: extract_citations returns one entry for every marker occurrence that
\* names one of the candidates and nothing else: no entry for a marker that
\* names none, and no candidate in the output that no marker names.
C11_OnePerReferencedMarker ==
    xpc = "done" =>
        /\ Len(extracted) = Cardinality({k \in 1..Len(response) : Referenced(k) # {}})
        /\ \A i \in 1..Len(extracted) :
              \E k \in 1..Len(response) : Refers(response[k], extracted[i].source)

(* ResearchOrchestrator.process_query *)

\* the conversation turns kept in the model
MaxTurns == 2

Untitled == <<"U", "n", "t", "i", "t", "l", "e", "d">>
NoDate == <<"n", ".", "d", ".">>

\* None where the code expects a text
NoneText == <<"None">>

\* lines 138-143: the citation marker written in front of a source
CitationMarker(source) ==
    IF source.content_type = "paper"
    THEN [shape |-> "author_year",
          author |-> Get(source, "authors", <<Unknown>>)[1],
          year |-> Take(Get(source, "publication_date", NoDate), 4)]
    ELSE IF source.content_type = "video"
    THEN [shape |-> "video",
          label |-> Get(source, "author", Unknown) \o <<",", " ">>
                    \o Take(Get(source, "title", Untitled), 30) \o <<".", ".", ".">>]
    ELSE [shape |-> "podcast",
          label |-> Take(Get(source, "title", Untitled), 30) \o <<".", ".", ".">>]

\* line 139: [0] of an empty list of authors raises IndexError, [:4] of a
\* publication_date that is None raises TypeError
MarkerRaises(source) ==
    /\ source.content_type = "paper"
    /\ \/ Get(source, "authors", <<Unknown>>) = <<>>
       \/ Get(source, "publication_date", NoDate) = NoneText

\* the exception of the first search result whose marker raises: the authors
\* are read before the date
MarkerError(results) ==
    LET first == Min({i \in 1..Len(results) : MarkerRaises(results[i].source)})
    IN  IF Get(results[first].source, "authors", <<Unknown>>) = <<>>
        THEN "IndexError" ELSE "TypeError"

\* format_context_with_citations: one block per search result, or the exception
FormatContextWithCitations(results) ==
    IF \E i \in 1..Len(results) : MarkerRaises(results[i].source)
    THEN [raised |-> TRUE, value |-> <<>>]
    ELSE [raised |-> FALSE,
          value |-> [i \in 1..Len(results) |->
              LET source == results[i].source
              IN  [source_no |-> i,
                   citation |-> CitationMarker(source),
                   title |-> Get(source, "title", Untitled),
                   type |-> Get(source, "content_type", "unknown"),
                   content |-> Take(Get(source, "content",
                                   Get(source, "transcript",
                                       Get(source, "abstract", <<>>))), 500)]]]

\* what the second llm.invoke of a query can do: raise, answer with a text that
\* is not JSON, with a JSON list, or with some other JSON value
RelatedOutcomes == {"raises", "not_json", "json_list", "json_object"}

\* generate_related_queries: json.loads of the answer, whatever it parses to;
\* the three templated questions when anything raised
GenerateRelatedQueries(original_query, outcome) ==
    IF outcome = "json_list"
    THEN [json |-> "list", items |-> <<"r1", "r2">>]
    ELSE IF outcome = "json_object"
    THEN [json |-> "object", items |-> <<"r1">>]
    ELSE [json |-> "list",
          items |-> <<"key concepts in " \o original_query,
                      "relate to current research " \o original_query,
                      "recent developments in " \o original_query>>]

\* lines 119-126: the dict returned when any step raised
ErrorResult(e) ==
    [answer |-> [error |-> e, text |-> <<>>],
     citations |-> <<>>, source_documents |-> <<>>,
     related_queries |-> [json |-> "list", items |-> <<>>]]

\* what hybrid_search can return for a query: nothing (also when the index is
\* unreachable), or hits in the order of their scores
QueryHits ==
    { <<>>,
      AsResults(<< [content_type |-> "paper", title |-> <<"c">>,
                    authors |-> << <<"a", "b">> >>, url |-> <<"a">>],
                   [content_type |-> "video", title |-> <<"a", "b">>, url |-> <<"c">>] >>),
      AsResults(<< [content_type |-> "paper", title |-> <<"a", "b">>, authors |-> <<>>] >>),
      AsResults(<< [content_type |-> "paper", title |-> <<"a">>,
                    authors |-> << <<"a">> >>, publication_date |-> NoneText] >>),
      AsResults(<< [content_type |-> "paper", title |-> <<"b">>,
                    authors |-> << <<"b">> >>, publication_date |-> <<"2", "0">>] >>),
      AsResults(<< [content_type |-> "paper", title |-> <<"c">>] >>) }

\* what llm.invoke can do with the research prompt: raise, or return a text,
\* given by the citation markers it holds
LlmOutcomes ==
    { [raised |-> TRUE, content |-> <<>>],
      [raised |-> FALSE, content |-> <<>>],
      [raised |-> FALSE,
       content |-> << [shape |-> "video", label |-> <<"a", "b">>],
                      [shape |-> "author_year", author |-> <<"a">>, year |-> Year] >>] }

\* what self.opensearch.hybrid_search can do for process_query: return hits, or
\* raise when the manager handed to __init__ is not usable (OpenSearchManager's
\* own hybrid_search returns [] instead of raising)
SearchOutcomes ==
    {[raised |-> TRUE, hits |-> <<>>]}
    \cup {[raised |-> FALSE, hits |-> hits] : hits \in QueryHits}

\* the steps of process_query in the order of lines 75-109
Steps == <<"search", "format", "generate", "extract", "memory", "related">>

\* the steps a call enters: all of them, or those up to the one that raised
StepsRun(search, context, llm) ==
    IF search.raised THEN SubSeq(Steps, 1, 1)
    ELSE IF context.raised THEN SubSeq(Steps, 1, 2)
    ELSE IF llm.raised THEN SubSeq(Steps, 1, 3)
    ELSE Steps

\* save_context is called although an earlier step raised
SaveContext_Always(mem, query, output, failed) ==
    Append(mem, [input |-> query, output |-> output])

\* line 105: self.memory.save_context(...), reached when no earlier step raised
SaveContext(mem, query, output, failed) ==
    IF failed THEN mem ELSE Append(mem, [input |-> query, output |-> output])

\* process_query(query, index_name), as handle_search calls it
ProcessQuery(query, search, llm, related) ==
    /\ Len(memory) < MaxTurns
    /\ LET hits == search.hits
           context == FormatContextWithCitations(hits)
           failed == search.raised \/ context.raised \/ llm.raised
       IN  /\ result' =
                 IF search.raised THEN ErrorResult("SearchError")
                 ELSE IF context.raised THEN ErrorResult(MarkerError(hits))
                 ELSE IF llm.raised THEN ErrorResult("LLMError")
                 ELSE [answer |-> [error |-> "", text |-> llm.content],
                       citations |-> ExtractCitations(llm.content, hits),
                       source_documents |-> hits,
                       related_queries |-> GenerateRelatedQueries(query, related)]
           /\ memory' = SaveContext(memory, query, llm.content, failed)
           /\ qlast' = [called |-> TRUE, query |-> query, generated |-> ~failed,
                        usage_before |-> Len(citations.usage_history),
                        turns_before |-> Len(memory),
                        steps |-> StepsRun(search, context, llm),
                        related |-> IF failed THEN "" ELSE related,
                        hits |-> hits]
    /\ UNCHANGED <<tracker, citations, storage, clock, last, lastAdd, prevAdd, ret,
                   th, extraction, indexer, collection>>

NextQuery ==
    \E query \in Queries, search \in SearchOutcomes, llm \in LlmOutcomes,
       related \in RelatedOutcomes :
        ProcessQuery(query, search, llm, related)

SpecQuery == Init /\ [][NextQuery]_vars

\* C7: when the generation step of a query succeeded, usage_history has grown
\* by one event for every citation the extraction step resolved.
C7_LedgerUpdatedPerCitation ==
    (qlast.called /\ qlast.generated) =>
        Len(citations.usage_history) = qlast.usage_before + Len(result.citations)

\* the three templated questions built from a query
Fallback(query) == GenerateRelatedQueries(query, "raises")

\* the dict process_query returns when a step raised
IsErrorResult(r) ==
    /\ r.answer.error # ""
    /\ r.citations = <<>>
    /\ r.source_documents = <<>>
    /\ r.related_queries.items = <<>>

\* C12: when the retrieval, the context-formatting or the generation step
\* raised, process_query returns the error-shaped result and none of the later
\* steps ran: nothing was appended to the memory, no citation was extracted and
\* no related-query call was made.
C12_FailureStopsQuery ==
    (qlast.called /\ ~qlast.generated) =>
        /\ IsErrorResult(result)
        /\ Len(memory) = qlast.turns_before
        /\ \A i \in 1..Len(qlast.steps) :
              qlast.steps[i] \notin {"extract", "memory", "related"}
        /\ qlast.related = ""

\* C12 witness: a query failed in its generation step after an earlier query had
\* been answered and saved
C12_Witness ==
    /\ qlast.called /\ ~qlast.generated
    /\ qlast.steps = SubSeq(Steps, 1, 3)
    /\ Len(memory) = 1
    /\ IsErrorResult(result)

\* C13: whenever the related-query call raised or did not answer with a JSON
\* list, the result carries the answer, its citations and the source documents,
\* and related_queries is the three templated questions.
C13_RelatedFallsBack ==
    (qlast.called /\ qlast.generated /\ qlast.related # "json_list") =>
        /\ result.answer.error = ""
        /\ result.related_queries = Fallback(qlast.query)

\* a paper with an empty list of authors
NoAuthors(source) ==
    source.content_type = "paper" /\ Get(source, "authors", <<Unknown>>) = <<>>

\* a paper whose publication_date is absent, None or shorter than 4 characters
NoYear(source) ==
    /\ source.content_type = "paper"
    /\ \/ "publication_date" \notin DOMAIN source
       \/ source.publication_date = NoneText
       \/ Len(source.publication_date) < 4

\* C27: when a search result is a paper with an empty authors list, or with a
\* publication_date that is absent, None or shorter than 4 characters, the
\* query reaches its generation step, and the marker of that paper has
\* "Unknown" for the missing author and "n.d." for the missing year.
C27_MissingAuthorDateRendered ==
    \A i \in 1..Len(qlast.hits) :
        LET source == qlast.hits[i].source
        IN  (qlast.called /\ (NoAuthors(source) \/ NoYear(source))) =>
                /\ \E k \in 1..Len(qlast.steps) : qlast.steps[k] = "generate"
                /\ NoAuthors(source) => CitationMarker(source).author = Unknown
                /\ NoYear(source) => CitationMarker(source).year = NoDate

(* OpenSearchManager *)

\* documents the index holds at most
MaxStored == 2
\* documents in one bulk_index call
MaxBatch == 2
\* the largest k asked of hybrid_search
MaxK == 2

\* the documents handed to index_document and bulk_index: two well-formed ones,
\* one without a title, one whose publication_date the date mapping of the index
\* (create_index) rejects, one whose content is None
Documents ==
    { [content_type |-> "paper", title |-> <<"a">>, abstract |-> <<"b">>,
       content |-> <<"c">>, publication_date |-> Year],
      [content_type |-> "video", title |-> <<"b">>, transcript |-> <<"c">>],
      [content_type |-> "podcast", content |-> <<"c">>],
      [content_type |-> "paper", title |-> <<"c">>, publication_date |-> NoDate],
      [content_type |-> "video", title |-> <<"a">>, content |-> NoneText] }

\* f"{title} {abstract} {content[:1000]}"
SearchableText(document) ==
    Get(document, "title", <<>>) \o <<" ">> \o Get(document, "abstract", <<>>)
    \o <<" ">> \o Take(Get(document, "content", <<>>), 1000)

\* document.get('content', '')[:1000] raises TypeError when content is None
EncodeRaises(document) == Get(document, "content", <<>>) = NoneText

\* self.embedding_model.encode(text).tolist(): a vector fixed by the text
Encode(text) == [dimension |-> 384, of |-> text]

\* the embedding of a document that already carries one is left as it is
WithEmbedding_KeepsSupplied(document) ==
    [key \in DOMAIN document \cup {"embedding"} |->
        IF key = "embedding" /\ key \notin DOMAIN document
        THEN Encode(SearchableText(document)) ELSE document[key]]

\* document['embedding'] = embedding
WithEmbedding(document) ==
    [key \in DOMAIN document \cup {"embedding"} |->
        IF key = "embedding" THEN Encode(SearchableText(document)) ELSE document[key]]

\* a text the date mapping accepts
IsDate(text) ==
    /\ text # <<>>
    /\ \A i \in 1..Len(text) : text[i] \in {Digit(d) : d \in 0..9} \cup {"-"}

\* the backend rejects a document that does not fit the mappings of create_index
BackendRejects(document) ==
    /\ "publication_date" \in DOMAIN document
    /\ document.publication_date # NoneText
    /\ ~IsDate(document.publication_date)

\* the request reaches the backend, or the transport raises
Net == {"ok", "fails"}

\* the caller's documents as a call leaves them: the embedding is set on every
\* document the loop reached before it returned or raised
Mutated(case, documents) ==
    IF case = "unavailable" THEN documents
    ELSE LET raising == {i \in 1..Len(documents) : EncodeRaises(documents[i])}
         IN  [i \in 1..Len(documents) |->
                 IF \E j \in raising : j <= i THEN documents[i]
                 ELSE WithEmbedding(documents[i])]

IndexCall(op, case, documents, queried, k, hits) ==
    [op |-> op, case |-> case, before |-> index, documents |-> documents,
     after |-> Mutated(case, documents), queried |-> queried, k |-> k, hits |-> hits]

\* why index_document returns None, or "ok"
IndexCase(document, net) ==
    IF ~connected THEN "unavailable"
    ELSE IF EncodeRaises(document) THEN "encode_raised"
    ELSE IF net = "fails" THEN "transport_error"
    ELSE IF BackendRejects(document) THEN "rejected"
    ELSE "ok"

\* index_document(index_name, document)
IndexDocument(document, net) ==
    /\ Len(index) < MaxStored
    /\ LET case == IndexCase(document, net)
       IN  /\ index' = IF case = "ok" THEN Append(index, WithEmbedding(document))
                       ELSE index
           /\ iret' = IF case = "ok" THEN PyDict([result |-> "created"]) ELSE PyNone
           /\ ilast' = IndexCall("index_document", case, <<document>>,
                                 case \in {"ok", "rejected"}, 0, <<>>)
    /\ UNCHANGED <<tracker, citations, storage, clock, last, lastAdd, prevAdd, ret,
                   th, extraction, conversation, connected, collection>>

\* the documents of a bulk request the backend stores: every one it does not
\* reject, each action of the request being applied on its own
Accepted(documents) ==
    LET fits(document) == ~BackendRejects(document)
    IN  SelectSeq([i \in 1..Len(documents) |-> WithEmbedding(documents[i])], fits)

\* why bulk_index returns None, or "ok"
BulkCase(documents, net) ==
    IF ~connected THEN "unavailable"
    ELSE IF \E i \in 1..Len(documents) : EncodeRaises(documents[i]) THEN "encode_raised"
    ELSE IF net = "fails" THEN "transport_error"
    ELSE IF \E i \in 1..Len(documents) : BackendRejects(documents[i]) THEN "partial"
    ELSE "ok"

\* bulk_index(index_name, documents): helpers.bulk raises BulkIndexError after
\* the request when the backend rejected one of its actions
BulkIndex(documents, net) ==
    /\ Len(index) + Len(documents) <= MaxStored
    /\ LET case == BulkCase(documents, net)
       IN  /\ index' = IF case \in {"ok", "partial"} THEN index \o Accepted(documents)
                       ELSE index
           /\ iret' = IF case = "ok" THEN PyInt(Len(documents)) ELSE PyNone
           /\ ilast' = IndexCall("bulk_index", case, documents,
                                 case \in {"ok", "partial"}, 0, <<>>)
    /\ UNCHANGED <<tracker, citations, storage, clock, last, lastAdd, prevAdd, ret,
                   th, extraction, conversation, connected, collection>>

\* one-to-one sequences of positions of s, of length at most n
Picks(s, n) ==
    {p \in SeqUpTo(1..Len(s), IF n < Len(s) THEN n ELSE Len(s)) :
        \A i, j \in 1..Len(p) : p[i] = p[j] => i = j}

\* response['hits']['hits'] for a request of size k: at most k of the stored
\* documents, the best score first
BackendHits(k) ==
    {[i \in 1..Len(p) |-> [_score |-> Len(p) + 1 - i, _source |-> index[p[i]]]] :
        p \in Picks(index, k)}

\* what self.client.search can do: raise (error, timeout), or answer
BackendAnswers(k) ==
    {[error |-> TRUE, hits |-> <<>>]}
    \cup {[error |-> FALSE, hits |-> hits] : hits \in BackendHits(k)}

\* lines 218-225: one result per hit
Results(hits) ==
    [i \in 1..Len(hits) |-> [score |-> hits[i]._score, source |-> hits[i]._source]]

\* hybrid_search keeps the results of the call before in front of the new ones
HybridSearchResults_CarriedOver(answer) ==
    IF ~connected \/ answer.error THEN PyList(<<>>)
    ELSE PyList((IF iret.type = "list" THEN iret.value ELSE <<>>) \o Results(answer.hits))

\* hybrid_search lets the backend's error through as None
HybridSearchResults_ErrorGivesNone(answer) ==
    IF ~connected THEN PyList(<<>>)
    ELSE IF answer.error THEN PyNone
    ELSE PyList(Results(answer.hits))

\* the list hybrid_search returns
HybridSearchResults(answer) ==
    IF ~connected \/ answer.error THEN PyList(<<>>)
    ELSE PyList(Results(answer.hits))

\* hybrid_search(index_name, query, k)
HybridSearch(query, k, answer) ==
    /\ iret' = HybridSearchResults(answer)
    /\ ilast' = IndexCall("hybrid_search",
                          IF ~connected THEN "unavailable"
                          ELSE IF answer.error THEN "search_error" ELSE "ok",
                          <<>>, connected, k,
                          IF connected THEN answer.hits ELSE <<>>)
    /\ UNCHANGED <<tracker, citations, storage, clock, last, lastAdd, prevAdd, ret,
                   th, extraction, conversation, connected, index, collection>>

\* an OpenSearchManager as constructed, its connection test passed or not; the
\* index is empty or holds a document of an earlier run
InitIndex ==
    /\ InitLedger
    /\ th = NoThreads
    /\ NoExtraction
    /\ NoQuery
    /\ connected \in BOOLEAN
    /\ index \in {<<>>, <<WithEmbedding([content_type |-> "video", title |-> <<"b">>,
                                          transcript |-> <<"c">>])>>}
    /\ iret = PyNone
    /\ ilast = NoIndexCall
    /\ NoCollection

NextIndex ==
    \/ \E document \in Documents, net \in Net : IndexDocument(document, net)
    \/ \E documents \in SeqUpTo(Documents, MaxBatch), net \in Net :
          BulkIndex(documents, net)
    \/ \E query \in Queries, k \in 1..MaxK :
          \E answer \in BackendAnswers(k) : HybridSearch(query, k, answer)

SpecIndex == InitIndex /\ [][NextIndex]_vars

(* Properties of the OpenSearchManager *)

Searched == ilast.op = "hybrid_search"

\* C14: hybrid_search always returns a list; without a connection it returns
\* the empty list and asks the backend nothing, and when the backend's search
\* raised it returns the empty list too.
C14_SearchNeverRaises ==
    Searched =>
        /\ iret.type = "list"
        /\ ilast.case = "unavailable" => (iret.value = <<>> /\ ~ilast.queried)
        /\ ilast.case = "search_error" => iret.value = <<>>

\* C14 witness: the backend holds a document and its search raised
C14_Witness ==
    /\ Searched
    /\ ilast.case = "search_error"
    /\ index # <<>>
    /\ iret.type = "list"

\* C15: the list hybrid_search returns is no longer than k, its scores do not
\* increase, and it is the hits the backend returned for this call, one result
\* per hit, in the backend's order.
C15_ResultsAreTheHits ==
    (Searched /\ iret.type = "list") =>
        /\ Len(iret.value) <= ilast.k
        /\ \A i \in 1..(Len(iret.value) - 1) :
              iret.value[i].score >= iret.value[i + 1].score
        /\ Len(iret.value) = Len(ilast.hits)
        /\ \A i \in 1..Len(iret.value) :
              /\ iret.value[i].score = ilast.hits[i]._score
              /\ iret.value[i].source = ilast.hits[i]._source

\* C15 witness: two documents are stored and a search with k = 1 returned one
C15_Witness ==
    /\ Searched
    /\ ilast.case = "ok"
    /\ Len(index) = 2
    /\ ilast.k = 1
    /\ Len(iret.value) = 1

IndexedWithout == ilast.op \in {"index_document", "bulk_index"} /\ ilast.case = "unavailable"

\* C16: without a connection index_document and bulk_index write nothing, and
\* the value they return then differs from the value bulk_index returns when
\* the backend stored some documents of the request and rejected others.
C16_UnavailableTellsApart ==
    /\ IndexedWithout => (index = ilast.before /\ iret.type = "NoneType")
    /\ (ilast.op = "bulk_index" /\ ilast.case = "partial" /\ index # ilast.before) =>
           iret.type # "NoneType"

\* the documents of a request that fail: in the embedding step or at the backend
Failing(documents) ==
    {i \in 1..Len(documents) : EncodeRaises(documents[i]) \/ BackendRejects(documents[i])}

\* the request without its failing documents, as stored
WellFormed(documents) ==
    LET good(document) == ~EncodeRaises(document) /\ ~BackendRejects(document)
        kept == SelectSeq(documents, good)
    IN  [i \in 1..Len(kept) |-> WithEmbedding(kept[i])]

\* C17: a bulk request of N documents of which exactly one fails stores the
\* other N-1 and returns both counts, N-1 succeeded and 1 failed.
C17_OneFailureCounted ==
    (/\ ilast.op = "bulk_index"
     /\ ilast.case \in {"partial", "encode_raised"}
     /\ Cardinality(Failing(ilast.documents)) = 1) =>
        /\ index = ilast.before \o WellFormed(ilast.documents)
        /\ iret.type = "tuple"
        /\ iret.value = <<Len(ilast.documents) - 1, 1>>

(* Properties of the report and of the export *)

Reported == last.op = "report"

\* the position in usage_history of the event that first recorded a row of
\* most_cited
FirstRecorded(row) ==
    Min({k \in 1..Len(citations.usage_history) :
            /\ citations.usage_history[k].citation_id = row.id
            /\ MapKey(citations.usage_history[k].content_type) = row.type})

\* the number of entries in the three maps
TotalEntries(reg) == Len(reg.papers) + Len(reg.videos) + Len(reg.podcasts)

\* C18: most_cited holds the entries, at most MostCitedN of them, by use_count
\* from high to low; entries of equal use_count come in the order in which they
\* were first recorded, whatever their content types.
C18_TiesInInsertionOrder ==
    Reported =>
        LET rows == ret.most_cited
        IN  /\ Len(rows) = Min({MostCitedN, TotalEntries(citations)})
            /\ \A i, j \in 1..Len(rows) :
                  i < j =>
                      /\ rows[i].use_count >= rows[j].use_count
                      /\ rows[i].use_count = rows[j].use_count =>
                             FirstRecorded(rows[i]) < FirstRecorded(rows[j])

\* the add_citation calls of a long session
MaxEvents == 11

\* the sources cited in it: the video and the first paper of Citations
SessionCitations ==
    {c \in Citations : c.content_type = "video" \/ Get(c, "authors", <<>>) # <<>>}

NextReport ==
    \/ \E citation \in SessionCitations :
          AddCitationUpTo(MaxEvents, citation, "q1", "ok")
    \/ Report

SpecReport == Init /\ [][NextReport]_vars

\* C19: get_citation_report returns the number of entries of each map and the
\* last min(RecentN, length) events of usage_history, the newest first, and
\* changes neither the registry nor the store.
C19_ReportCountsAndRecent ==
    [][last'.op = "report" =>
        LET history == citations.usage_history
            recent == ret'.recent_citations
            ids(m) == {m[i].id : i \in 1..Len(m)}
        IN  /\ citations' = citations
            /\ storage' = storage
            /\ ret'.total_papers = Cardinality(ids(citations.papers))
            /\ ret'.total_videos = Cardinality(ids(citations.videos))
            /\ ret'.total_podcasts = Cardinality(ids(citations.podcasts))
            /\ Len(recent) = Min({RecentN, Len(history)})
            /\ \A i \in 1..Len(recent) : recent[i] = history[Len(history) + 1 - i]]_vars

\* C19 witness: a report on a ledger with a paper, a video and more than RecentN
\* events
C19_Witness ==
    /\ Reported
    /\ Len(citations.usage_history) > RecentN
    /\ Len(ret.recent_citations) = RecentN
    /\ ret.total_papers = 1
    /\ ret.total_videos = 1

\* the add_citation calls before an export
MaxCited == 3

\* the sources cited before an export: three papers with two, one and no
\* authors, and a video
ExportCitations ==
    { [content_type |-> "paper", title |-> <<"a">>, url |-> <<"b", "c">>,
       authors |-> <<A, B>>],
      [content_type |-> "paper", title |-> <<"b">>, url |-> <<"c">>, authors |-> <<A>>],
      [content_type |-> "paper", title |-> <<"c">>, url |-> <<"a">>, authors |-> <<>>],
      [content_type |-> "video", title |-> <<"a">>, url |-> <<"b", "c">>] }

NextExport ==
    \/ \E citation \in ExportCitations :
          AddCitationUpTo(MaxCited, citation, "q1", "ok")
    \/ \E format \in Formats : Export(format)

SpecExport == Init /\ [][NextExport]_vars

ExportedBibtex == last.op = "export" /\ last.query = "bibtex"

\* the authors of a paper in their stored order, " and " between them
AndJoined(authors) ==
    IF authors = <<>> THEN <<>>
    ELSE IF Len(authors) = 1 THEN authors[1]
    ELSE authors[1] \o <<" ", "a", "n", "d", " ">> \o authors[2]

\* C20: export_bibliography('bibtex') renders every paper entry, in the order of
\* the papers map, as an @article block keyed by its id whose author field is
\* the authors joined by " and ", whose year field is the first four characters
\* of first_used and whose url field is the url; a blank line separates blocks.
C20_BibtexBlocks ==
    ExportedBibtex =>
        LET n == Len(citations.papers)
        IN  /\ Len(ret) = IF n = 0 THEN 0 ELSE 12 * n - 1
            /\ \A i \in 1..n :
                  LET o == 12 * (i - 1)
                      paper == citations.papers[i]
                  IN  /\ ret[o + 1] = Lit("@article{")
                      /\ ret[o + 2] = IdTok(paper.id)
                      /\ ret[o + 5] = Lit("},\n    author={")
                      /\ ret[o + 6] = TextTok(AndJoined(paper.authors))
                      /\ ret[o + 7] = Lit("},\n    year={")
                      /\ ret[o + 8] = TextTok(SubSeq(paper.first_used, 1, 4))
                      /\ ret[o + 9] = Lit("},\n    url={")
                      /\ ret[o + 10] = TextTok(paper.url)
                      /\ ret[o + 11] = Lit("}\n}")
            /\ \A i \in 1..(n - 1) : ret[12 * i] = Lit("\n\n")

\* C20 witness: a bibtex export of two papers, the first with two authors, from
\* a ledger that also holds a video
C20_Witness ==
    /\ ExportedBibtex
    /\ Len(citations.papers) = 2
    /\ Len(citations.papers[1].authors) = 2
    /\ Len(citations.videos) = 1
    /\ Len(ret) = 23

ExportedApa == last.op = "export" /\ last.query = "apa"

\* the papers of the registry recorded without authors
AuthorlessPapers == {i \in 1..Len(citations.papers) : citations.papers[i].authors = <<>>}

\* C21: a paper recorded without authors is rendered with the author "Unknown",
\* in the bibtex export and in the apa export.
C21_NoAuthorsUnknown ==
    /\ ExportedBibtex =>
          \A i \in AuthorlessPapers : ret[12 * (i - 1) + 6] = TextTok(Unknown)
    /\ ExportedApa =>
          \A i \in AuthorlessPapers :
              \E k \in 1..Len(ret) :
                  /\ IsPrefix(Unknown \o <<" ", "(">>, ret[k])
                  /\ Substring(<<")", ".", " ">> \o citations.papers[i].title \o <<".">>,
                               ret[k])

\* <author> (<year>). <title>. Retrieved from <url>
ApaForm(author, year, title, url) ==
    author \o <<" ", "(">> \o year \o <<")", ".", " ">> \o title
    \o <<".", " ", "R", "e", "t", "r", "i", "e", "v", "e", "d", " ", "f", "r", "o", "m", " ">>
    \o url

\* a line is the rendering of a paper entry: the sole author, or the first
\* author and "et al."; the first four characters of first_used, or "n.d."
RendersPaper(line, paper) ==
    LET year == IF paper.first_used = <<>> THEN NoDate ELSE SubSeq(paper.first_used, 1, 4)
    IN  IF Len(paper.authors) = 1
        THEN line = ApaForm(paper.authors[1], year, paper.title, paper.url)
        ELSE IF Len(paper.authors) >= 2
        THEN line = ApaForm(paper.authors[1] \o <<" ", "e", "t", " ", "a", "l", ".">>,
                            year, paper.title, paper.url)
        ELSE \E author \in {Unknown, <<>>} :
                line = ApaForm(author, year, paper.title, paper.url)

\* the one-to-one maps of 1..n onto itself
Bijections(n) == {f \in [1..n -> 1..n] : \A i, j \in 1..n : f[i] = f[j] => i = j}

\* C22: the apa export has one line per paper entry, each of the form
\* <author> (<year>). <title>. Retrieved from <url>, and the lines are in
\* lexicographic order whatever the order of the papers map.
C22_ApaLinesSorted ==
    ExportedApa =>
        /\ Len(ret) = Len(citations.papers)
        /\ \E f \in Bijections(Len(ret)) :
              \A i \in 1..Len(ret) : RendersPaper(ret[f[i]], citations.papers[i])
        /\ \A i, j \in 1..Len(ret) : i < j => ~LexLess(ret[j], ret[i])

\* C22 witness: two papers of one and of two authors whose lines come out in the
\* order opposite to that of the papers map
C22_Witness ==
    /\ ExportedApa
    /\ Len(citations.papers) = 2
    /\ Len(citations.papers[1].authors) = 2
    /\ Len(citations.papers[2].authors) = 1
    /\ RendersPaper(ret[1], citations.papers[2])
    /\ ret[1] # ret[2]

\* exports and reports of one ledger
NextBiblio ==
    \/ NextExport
    \/ Report

SpecBiblio == Init /\ [][NextBiblio]_vars

\* the number of items of a bibliography: @article blocks, or lines
Items(text, format) ==
    IF format = "bibtex"
    THEN Cardinality({k \in 1..Len(text) : text[k] = Lit("@article{")})
    ELSE Len(text)

\* C23: a bibtex or apa export has exactly one item per entry of the papers map,
\* none for a video or podcast, and leaves the registry and the store as they
\* are; a report still counts the videos and podcasts.
C23_OnlyPapersExported ==
    [][/\ (last'.op = "export" /\ last'.query \in {"bibtex", "apa"}) =>
              /\ citations' = citations
              /\ storage' = storage
              /\ Items(ret', last'.query) = Len(citations.papers)
              /\ last'.query = "bibtex" =>
                     \A i \in 1..Len(citations.papers) :
                         ret'[12 * (i - 1) + 4] = TextTok(citations.papers[i].title)
              /\ last'.query = "apa" =>
                     \E f \in Bijections(Len(ret')) :
                         \A i \in 1..Len(ret') :
                             RendersPaper(ret'[f[i]], citations.papers[i])
       /\ last'.op = "report" =>
              /\ ret'.total_videos = Len(citations.videos)
              /\ ret'.total_podcasts = Len(citations.podcasts)
              /\ Cardinality({k \in 1..Len(ret'.most_cited) :
                                  ret'.most_cited[k].type = "videos"})
                     = Len(citations.videos)]_vars

\* C23 witness: an apa export of a ledger that holds two papers and a video
C23_Witness ==
    /\ ExportedApa
    /\ Len(citations.papers) = 2
    /\ Len(citations.videos) = 1
    /\ Len(ret) = 2

(* Properties of the ledger's store *)

\* C24: constructing the ledger does not fail because of the store: with the
\* file absent, and with a file that cannot be read or parsed, the ledger is up
\* with the empty registry.
C24_ConstructNeverFails ==
    last.op = "init" =>
        /\ ~last.raised
        /\ tracker = "up"
        /\ storage.kind # "json" => citations = EmptyRegistry

\* the add_citation calls of a session whose store may fail
MaxWrites == 3

\* a ledger whose store fails at times, and its reconstruction from the store
NextStore ==
    \/ \E citation \in SessionCitations \cup {c \in Citations : c.content_type = "book"},
          query \in Queries, disk \in DiskOutcomes :
          AddCitationUpTo(MaxWrites, citation, query, disk)
    \/ Construct

SpecStore == Init /\ [][NextStore]_vars

\* C25: an add_citation call that recorded a usage in memory and did not get
\* the registry written to the store does not return normally.
C25_WriteFailureSurfaces ==
    [][(/\ last'.op = "add_citation"
        /\ citations' # citations
        /\ storage' # JsonFile(JsonDump(citations'))) => last'.raised]_vars

\* C25 witness: an add_citation call raised after json.dump failed on a ledger
\* that had recorded a usage
C25_Witness ==
    /\ last.op = "add_citation"
    /\ last.raised
    /\ storage.kind = "corrupt"
    /\ Len(citations.usage_history) = 2

\* C28: in a ledger that started empty, after any sequence of add_citation
\* calls, failed ones included, every entry has use_count = length of its
\* queries >= 1, usage_history has as many events as the use_counts of the
\* three maps sum to, and every event names an entry of the map of its
\* content type.
C28_CountsAgree ==
    tracker = "up" =>
        /\ \A n \in 1..Len(MapKeys) : \A i \in 1..Len(citations[MapKeys[n]]) :
              /\ citations[MapKeys[n]][i].use_count = Len(citations[MapKeys[n]][i].queries)
              /\ citations[MapKeys[n]][i].use_count >= 1
        /\ Len(citations.usage_history) = TotalUseCount(citations)
        /\ \A e \in 1..Len(citations.usage_history) :
              /\ MapKey(citations.usage_history[e].content_type) \in DOMAIN citations
              /\ HasKey(citations[MapKey(citations.usage_history[e].content_type)],
                        citations.usage_history[e].citation_id)

\* C28 witness: three usages are recorded, two of them of one entry with the
\* same query, and the last call failed to write the store
C28_Witness ==
    /\ tracker = "up"
    /\ last.op = "add_citation" /\ last.raised
    /\ Len(citations.usage_history) = 3
    /\ \E n \in 1..Len(MapKeys) : \E i \in 1..Len(citations[MapKeys[n]]) :
          /\ citations[MapKeys[n]][i].use_count = 2
          /\ citations[MapKeys[n]][i].queries[1].query
                = citations[MapKeys[n]][i].queries[2].query
    /\ \E n \in 1..Len(MapKeys) : \E i \in 1..Len(citations[MapKeys[n]]) :
          citations[MapKeys[n]][i].use_count = 1

\* C29: an add_citation call that raised, for a write error or for a content
\* type that is not paper, video or podcast, leaves the registry as it was
\* before the call, so the registry still equals what the store holds.
C29_FailedCallChangesNothing ==
    [][(last'.op = "add_citation" /\ last'.raised) =>
          /\ citations' = citations
          /\ (storage = JsonFile(JsonDump(citations))
                 => storage' = JsonFile(JsonDump(citations')))]_vars

(* The embedding set by index_document and bulk_index *)

\* a text longer than the 1000 characters the embedding is computed from, its
\* last character being ch
LongText(ch) == [i \in 1..1001 |-> IF i = 1001 THEN ch ELSE "c"]

\* a vector the caller computed from some other text
Supplied == [dimension |-> 384, of |-> <<"o", "l", "d">>]

\* documents handed over for indexing: two whose contents differ behind the
\* 1000th character only, one of them with an embedding of the caller's; two
\* short ones of equal title, abstract and content, one with a url
EmbedDocuments ==
    { [content_type |-> "paper", title |-> <<"a">>, content |-> LongText("c"),
       embedding |-> Supplied],
      [content_type |-> "paper", title |-> <<"a">>, content |-> LongText("d")],
      [content_type |-> "video", title |-> <<"b">>, abstract |-> <<"c">>,
       content |-> <<"c">>],
      [content_type |-> "video", title |-> <<"b">>, abstract |-> <<"c">>,
       content |-> <<"c">>, url |-> <<"a">>, embedding |-> Supplied] }

InitEmbed ==
    /\ InitLedger
    /\ th = NoThreads
    /\ NoExtraction
    /\ NoQuery
    /\ connected \in BOOLEAN
    /\ index = <<>>
    /\ iret = PyNone
    /\ ilast = NoIndexCall
    /\ NoCollection

NextEmbed ==
    \/ \E document \in EmbedDocuments, net \in Net : IndexDocument(document, net)
    \/ \E documents \in SeqUpTo(EmbedDocuments, MaxBatch), net \in Net :
          BulkIndex(documents, net)

SpecEmbed == InitEmbed /\ [][NextEmbed]_vars

Indexed == ilast.op \in {"index_document", "bulk_index"}

\* title, abstract and the first 1000 characters of content, empty when absent
TextWindow(document) ==
    <<Get(document, "title", <<>>), Get(document, "abstract", <<>>),
      SubSeq(Get(document, "content", <<>>), 1,
             Min({1000, Len(Get(document, "content", <<>>))}))>>

\* the vector of a text window
WindowVector(window) ==
    Encode(window[1] \o <<" ">> \o window[2] \o <<" ">> \o window[3])

\* C26: index_document and bulk_index change no field of the caller's documents
\* but embedding; every document they write to the index carries the embedding
\* of its title, abstract and first 1000 characters of content, whatever
\* embedding the caller supplied; stored documents of equal text have equal
\* embeddings.
C26_OnlyEmbeddingSet ==
    Indexed =>
        /\ Len(ilast.after) = Len(ilast.documents)
        /\ \A i \in 1..Len(ilast.documents) :
              /\ DOMAIN ilast.after[i] \subseteq DOMAIN ilast.documents[i] \cup {"embedding"}
              /\ \A key \in DOMAIN ilast.documents[i] \ {"embedding"} :
                    ilast.after[i][key] = ilast.documents[i][key]
        /\ \A i \in (Len(ilast.before) + 1)..Len(index) :
              index[i].embedding = WindowVector(TextWindow(index[i]))
        /\ \A i, j \in 1..Len(index) :
              TextWindow(index[i]) = TextWindow(index[j]) =>
                  index[i].embedding = index[j].embedding

\* C26 witness: a bulk request stored a document that came with an embedding of
\* the caller's and a document of the same first 1000 characters
C26_Witness ==
    /\ ilast.op = "bulk_index"
    /\ ilast.case = "ok"
    /\ Len(ilast.documents) = 2
    /\ "embedding" \in DOMAIN ilast.documents[1]
    /\ ilast.documents[1].content # ilast.documents[2].content
    /\ Len(ilast.documents[1].content) > 1000
    /\ Len(index) = 2
    /\ index[1].embedding = index[2].embedding

(* ResearchAssistantUI.handle_data_collection *)

\* the rows of the collections table kept in the model
MaxRows == 3

SourceTypes == {"ArXiv Papers", "YouTube Lectures", "Podcasts"}

\* a pubDate as an RSS feed gives it
RssDate == <<"M", "o", "n", ",", " ", "1">>

\* what the collectors return for a source type: papers with and without
\* authors and date, videos with and without a description, podcast episodes
\* with the pubDate of their feed and without one
CollectedItems(source_type) ==
    IF source_type = "ArXiv Papers"
    THEN { [title |-> <<"a">>, abstract |-> <<"b">>, authors |-> << <<"a">> >>,
            published |-> Year],
           [title |-> <<"c">>, abstract |-> <<"b">>] }
    ELSE IF source_type = "YouTube Lectures"
    THEN { [title |-> <<"b">>, description |-> <<"c">>, author |-> <<"a">>],
           [title |-> <<"a">>, description |-> NoneText] }
    ELSE { [title |-> <<"b">>, description |-> <<"c">>, published |-> RssDate],
           [title |-> <<"c">>, description |-> <<"c">>] }

\* the collector returns items, or raises
Collected(source_type) ==
    {[raised |-> TRUE, items |-> <<>>]}
    \cup {[raised |-> FALSE, items |-> items] :
             items \in SeqUpTo(CollectedItems(source_type), MaxBatch)}

\* the content_type handle_data_collection gives add_collection
ContentTypeOf(source_type) ==
    IF source_type = "ArXiv Papers" THEN "paper"
    ELSE IF source_type = "YouTube Lectures" THEN "video"
    ELSE "podcast"

\* the key of results that holds the number of collected items
CollectedKey(source_type) == ContentTypeOf(source_type) \o "s_collected"

\* _format_document(item, source_type)
FormatDocument(item, source_type) ==
    IF source_type = "YouTube Lectures"
    THEN [content_type |-> "video",
          title |-> Get(item, "title", Unknown),
          content |-> Get(item, "description", <<>>),
          transcript |-> Get(item, "transcript", <<>>),
          authors |-> <<Get(item, "author", Unknown)>>,
          url |-> Get(item, "url", <<>>),
          publication_date |-> Get(item, "publish_date", NoneText),
          metadata |-> [video_id |-> Get(item, "video_id", <<>>),
                        length |-> Get(item, "length", 0),
                        views |-> Get(item, "views", 0),
                        thumbnail_url |-> Get(item, "thumbnail_url", <<>>)]]
    ELSE IF source_type = "ArXiv Papers"
    THEN [content_type |-> "paper",
          title |-> Get(item, "title", Unknown),
          abstract |-> Get(item, "abstract", <<>>),
          content |-> Get(item, "content", <<>>),
          authors |-> Get(item, "authors", <<>>),
          url |-> Get(item, "url", <<>>),
          publication_date |-> Get(item, "published", NoneText),
          metadata |-> [arxiv_id |-> Get(item, "id", <<>>),
                        categories |-> Get(item, "categories", <<>>)]]
    ELSE [content_type |-> "podcast",
          title |-> Get(item, "title", Unknown),
          content |-> Get(item, "description", <<>>),
          transcript |-> Get(item, "transcript", <<>>),
          authors |-> <<Get(item, "author", Unknown)>>,
          url |-> Get(item, "link", <<>>),
          publication_date |-> Get(item, "published", NoneText),
          metadata |-> [audio_url |-> Get(item, "audio_url", <<>>)]]

\* add_collection for every item, in the order of the items: rows with indexed = 0
AddCollections(rows, items, source_type) ==
    rows \o [i \in 1..Len(items) |->
                [id |-> Len(rows) + i, content_type |-> ContentTypeOf(source_type),
                 title |-> Get(items[i], "title", Unknown), indexed |-> FALSE]]

\* lines 370-371: mark_as_indexed for every id of collection_ids; what bulk_index
\* returned is not looked at
MarkAsIndexed(rows, ids) ==
    [i \in 1..Len(rows) |->
        IF rows[i].id \in ids THEN [rows[i] EXCEPT !.indexed = TRUE] ELSE rows[i]]

\* handle_data_collection(source_type, query, max_results) of a UI that was given
\* an OpenSearchManager, as main does; _index_data and bulk_index are part of it
HandleDataCollection(source_type, collect, net) ==
    /\ Len(db) + Len(collect.items) <= MaxRows
    /\ Len(index) + Len(collect.items) <= MaxStored
    /\ LET items     == collect.items
           documents == [i \in 1..Len(items) |-> FormatDocument(items[i], source_type)]
           indexing  == ~collect.raised /\ items # <<>>
           case      == BulkCase(documents, net)
           returned  == IF case = "ok" THEN PyInt(Len(documents)) ELSE PyNone
           rows      == AddCollections(db, items, source_type)
           ids       == {rows[i].id : i \in (Len(db) + 1)..Len(rows)}
       IN  /\ db' = IF indexing THEN MarkAsIndexed(rows, ids) ELSE rows
           /\ index' = IF indexing /\ case \in {"ok", "partial"}
                       THEN index \o Accepted(documents) ELSE index
           /\ iret' = IF indexing THEN returned ELSE iret
           /\ ilast' = IF indexing
                       THEN IndexCall("bulk_index", case, documents,
                                      case \in {"ok", "partial"}, 0, <<>>)
                       ELSE ilast
           /\ collected_data' = IF indexing
                                THEN collected_data \o Mutated(case, documents)
                                ELSE collected_data
           /\ cret' =
                 IF collect.raised
                 THEN [status |-> <<"collecting", "error">>, results |-> <<>>]
                 ELSE IF indexing
                 THEN [status |-> <<"collecting", "collected", "indexing", "indexed",
                                    "complete">>,
                       results |-> [key \in {CollectedKey(source_type), "items_indexed"} |->
                                       Len(items)]]
                 ELSE [status |-> <<"collecting", "collected", "not_indexed", "complete">>,
                       results |-> [key \in {CollectedKey(source_type)} |-> 0]]
           /\ clast' = [called |-> TRUE, source_type |-> source_type,
                        rows |-> Len(db), documents |-> documents]
    /\ UNCHANGED <<tracker, citations, storage, clock, last, lastAdd, prevAdd, ret,
                   th, extraction, conversation, connected>>

InitCollect ==
    /\ InitLedger
    /\ th = NoThreads
    /\ NoExtraction
    /\ NoQuery
    /\ connected \in BOOLEAN
    /\ index = <<>>
    /\ iret = PyNone
    /\ ilast = NoIndexCall
    /\ NoCollection

NextCollect ==
    \E source_type \in SourceTypes, net \in Net :
        \E collect \in Collected(source_type) :
            HandleDataCollection(source_type, collect, net)

SpecCollect == InitCollect /\ [][NextCollect]_vars

\* the positions of the documents of the last collection that the index holds
\* since that collection
Written ==
    {i \in 1..Len(clast.documents) :
        \E j \in (Len(ilast.before) + 1)..Len(index) : index[j] = ilast.after[i]}

\* C30: after handle_data_collection, a row it added is marked indexed only if
\* its document was written to the index by this call, and items_indexed is the
\* number of documents written.
C30_MarkedOnlyIfWritten ==
    (clast.called /\ clast.documents # <<>>) =>
        /\ \A i \in 1..Len(clast.documents) :
              db[clast.rows + i].indexed => i \in Written
        /\ "items_indexed" \in DOMAIN cret.results =>
              cret.results["items_indexed"] = Cardinality(Written)

=============================================================================
